---- MODULE Spec2Model ----
(***************************************************************************)
(* Model of the candle cache of balkhaev/trader: the data manager          *)
(* (apps/lean/data_manager.py), the standalone downloader                  *)
(* (apps/lean/download_binance_data.py), the quote-format converter        *)
(* (apps/lean/scripts/convert_quote_data.py) and the deletion endpoint of  *)
(* apps/portfolio/main.py.                                                 *)
(*                                                                         *)
(* Text is a sequence of one-character strings, so that split, strip,      *)
(* int() and isdigit() act on characters as they do in the code.  Time is  *)
(* in milliseconds counted from 2022-12-31T00:00:00Z: day 1 is 2023-01-01. *)
(* A calendar date string ("%Y-%m-%d") is held as its day number.          *)
(***************************************************************************)
EXTENDS Integers, Sequences, FiniteSets, TLC

VARIABLES
  fs,     \* the files of the data directory: path -> file
  today,  \* the host's local calendar date (day number)
  tz,     \* the host's offset from UTC in hours (datetime.timestamp/fromtimestamp are local)
  run,    \* the operation in progress (a loop over symbols or files, a conversion)
  last,   \* the operation that acted last, with its inputs and what it observed
  ret     \* what that operation returned

vars == <<fs, today, tz, run, last, ret>>

----------------------------------------------------------------------------
(* Bounds of the model *)

MaxDay == 3          \* the last local date the clock reaches
RemotePageCap == 2   \* rows the remote returns per page (at most PageLimit)
MaxSyms == 2         \* length of a list of symbols passed to an operation

(* Program constants *)

PageLimit == 1000            \* "limit": "1000"
DEFAULT_START_DATE == 1      \* "2023-01-01", as a day number
SpreadDen == 10000           \* SPREAD = 0.0001 = 1 / SpreadDen

HourMs == 60 * 60 * 1000
DayMs == 24 * HourMs

TZOffsets == {0 - 5, 0}   \* hosts in UTC-5 and in UTC

NoneDate == 0 - 1            \* None, where a date is expected

----------------------------------------------------------------------------
(* Text *)

Min(S) == CHOOSE x \in S : \A y \in S : x <= y
Max(S) == CHOOSE x \in S : \A y \in S : x >= y

DigitChars == <<"0", "1", "2", "3", "4", "5", "6", "7", "8", "9">>

IsDigitChar(c) == \E i \in 1..10 : DigitChars[i] = c

DigitOf(c) == (CHOOSE i \in 1..10 : DigitChars[i] = c) - 1

IsSpace(c) == c \in {" ", "\n", "\r", "\t"}

\* str(n) of a non-negative int
RECURSIVE Str(_)
Str(n) == IF n < 10 THEN <<DigitChars[n + 1]>>
          ELSE Str(n \div 10) \o <<DigitChars[(n % 10) + 1]>>

\* n in decimal, zero-padded on the left to w digits ("%02d" and the like)
Pad(n, w) == LET s == Str(n) IN [i \in 1..(w - Len(s)) |-> "0"] \o s

\* the first index from i on (the last index from i down) that holds no whitespace
RECURSIVE SkipSpaces(_, _)
SkipSpaces(t, i) == IF i > Len(t) \/ ~IsSpace(t[i]) THEN i ELSE SkipSpaces(t, i + 1)

RECURSIVE SkipSpacesBack(_, _)
SkipSpacesBack(t, i) == IF i < 1 \/ ~IsSpace(t[i]) THEN i ELSE SkipSpacesBack(t, i - 1)

\* str.strip()
Strip(t) == SubSeq(t, SkipSpaces(t, 1), SkipSpacesBack(t, Len(t)))

\* str.split(c) for a one-character separator: always at least one piece
Split(t, c) ==
  LET P == {i \in DOMAIN t : t[i] = c}
      n == Cardinality(P)
      pos[k \in 0..(n + 1)] ==
        IF k = 0 THEN 0
        ELSE IF k = n + 1 THEN Len(t) + 1
        ELSE CHOOSE i \in P : Cardinality({j \in P : j < i}) = k - 1
  IN [k \in 1..(n + 1) |-> SubSeq(t, pos[k - 1] + 1, pos[k] - 1)]

\* the lines of the pieces that split("\n") gave: a piece before a "\n" loses the
\* "\r" of a "\r\n", a lone "\r" breaks a line, and the text's end adds no empty line
RECURSIVE PieceLines(_)
PieceLines(pieces) ==
  LET p == pieces[1]
      q == IF p # <<>> /\ p[Len(p)] = "\r" THEN SubSeq(p, 1, Len(p) - 1) ELSE p
      l == Split(p, "\r")
  IN IF Len(pieces) = 1
     THEN IF l[Len(l)] = <<>> THEN SubSeq(l, 1, Len(l) - 1) ELSE l
     ELSE Split(q, "\r") \o PieceLines(Tail(pieces))

\* str.splitlines(): breaks at "\n", "\r\n", "\r"; no empty last line
SplitLines(t) == PieceLines(Split(t, "\n"))

\* sep.join(parts)
RECURSIVE Join(_, _)
Join(parts, sep) ==
  IF parts = <<>> THEN <<>>
  ELSE IF Len(parts) = 1 THEN parts[1]
  ELSE parts[1] \o sep \o Join(Tail(parts), sep)

\* str.isdigit(): non-empty and every character a digit
IsDigit(t) == t # <<>> /\ \A i \in DOMAIN t : IsDigitChar(t[i])

\* int(t) raises ValueError unless, whitespace stripped, t is an optional sign and digits
IntOk(t) ==
  LET s == Strip(t)
      b == IF s # <<>> /\ s[1] \in {"+", "-"} THEN Tail(s) ELSE s
  IN IsDigit(b)

RECURSIVE DigitsVal(_)
DigitsVal(t) == IF t = <<>> THEN 0
                ELSE 10 * DigitsVal(SubSeq(t, 1, Len(t) - 1)) + DigitOf(t[Len(t)])

IntVal(t) ==
  LET s == Strip(t)
  IN IF s[1] = "-" THEN 0 - DigitsVal(Tail(s))
     ELSE IF s[1] = "+" THEN DigitsVal(Tail(s))
     ELSE DigitsVal(s)

\* the number of digits of a text int() accepts
DigitCount(t) ==
  LET s == Strip(t)
  IN IF s # <<>> /\ s[1] \in {"+", "-"} THEN Len(s) - 1 ELSE Len(s)

LowerChar(c) == CASE c = "A" -> "a" [] c = "B" -> "b" [] c = "C" -> "c" [] c = "D" -> "d"
                  [] OTHER -> c
UpperChar(c) == CASE c = "a" -> "A" [] c = "b" -> "B" [] c = "c" -> "C" [] c = "d" -> "D"
                  [] OTHER -> c

Lower(t) == [i \in DOMAIN t |-> LowerChar(t[i])]
Upper(t) == [i \in DOMAIN t |-> UpperChar(t[i])]

----------------------------------------------------------------------------
(* Paths and files *)

QuoteZip == <<"_", "q", "u", "o", "t", "e", ".", "z", "i", "p">>
DotCsv == <<".", "c", "s", "v">>
DotZipBak == <<".", "z", "i", "p", ".", "b", "a", "k">>

\* the symbols callers pass: two markets, in several spellings
Symbols == {<<"A", "B">>, <<"a", "b">>, <<"C", "d">>}

\* data_path / f"{symbol.lower()}_quote.zip"
ZipPath(symbol) == Lower(symbol) \o QuoteZip

\* f"{symbol.lower()}.csv"
CsvName(symbol) == Lower(symbol) \o DotCsv

\* Path.with_suffix('.zip.bak') of a path that ends in ".zip"
BackupPath(p) == SubSeq(p, 1, Len(p) - 4) \o DotZipBak

ZipPaths == {ZipPath(s) : s \in Symbols}
AllPaths == ZipPaths \cup {BackupPath(p) : p \in ZipPaths}

\* no file at the path
NoFile == [kind |-> "none", entries |-> <<>>, mtime |-> 0]

\* bytes that are no zip archive (truncated, overwritten, half written)
BadFile(m) == [kind |-> "bad", entries |-> <<>>, mtime |-> m]

\* a zip archive with its entries in order
ZipFile(entries, m) == [kind |-> "zip", entries |-> entries, mtime |-> m]

Exists(dir, p) == dir[p].kind # "none"

\* stat().st_size, as the number of stored characters
RECURSIVE EntriesSize(_)
EntriesSize(es) == IF es = <<>> THEN 0 ELSE 1 + Len(es[1].data) + EntriesSize(Tail(es))

FileSize(f) == IF f.kind = "zip" THEN 1 + EntriesSize(f.entries) ELSE 1

----------------------------------------------------------------------------
(* Host clock *)

\* int(datetime.strptime(d, "%Y-%m-%d").timestamp() * 1000): local midnight of day d
LocalMidnight(d) == d * DayMs - tz * HourMs

\* datetime.fromtimestamp(ts / 1000).strftime("%Y-%m-%d"): the local date of ts
LocalDate(ts) == (ts + tz * HourMs) \div DayMs

\* the date of ts in UTC
UtcDate(ts) == ts \div DayMs

\* datetime.fromtimestamp and utcfromtimestamp of ts_ms / 1000: a timestamp of more
\* than MaxTsDigits digits lies after the year 9999 and raises ValueError ("year
\* out of range"); from RaiseTsDigits digits on, gmtime fails and raises OSError
\* (or OverflowError, past time_t)
MaxTsDigits == 14
RaiseTsDigits == 20

----------------------------------------------------------------------------
(* The remote klines endpoint *)

\* Markets the remote lists: "AB" has one daily candle per UTC day from day 1 on,
\* every other symbol has none.
RemoteHasMarket(symbol) == symbol = <<"A", "B">>

\* one row of the JSON answer: [openTime, open, high, low, close, ...]
RemoteCandle(D) == [t |-> D * DayMs, o |-> D + 1, h |-> D + 3, l |-> D, c |-> D + 2]

\* GET klines?symbol&interval&startTime&endTime&limit: the candles with
\* startTime <= openTime <= endTime, ascending, at most limit (and at most
\* RemotePageCap) of them
RemotePage(symbol, startTime, endTime, limit) ==
  LET Ds == {D \in 1..(endTime \div DayMs) : startTime <= D * DayMs}
      n == Min({Cardinality(Ds), limit, RemotePageCap})
  IN IF ~RemoteHasMarket(symbol) \/ Ds = {} THEN <<>>
     ELSE [i \in 1..n |-> RemoteCandle(Min(Ds) + i - 1)]

----------------------------------------------------------------------------
(* DataManager: fetch *)

RECURSIVE KlinesLoopFailsEmpty(_, _, _, _, _, _)
\* the loop, were its handler to return an empty list in place of breaking
KlinesLoopFailsEmpty(symbol, current_ts, end_ts, page, failAt, acc) ==
  IF ~(current_ts < end_ts) THEN acc
  ELSE LET reqs == Append(acc.reqs, current_ts)
       IN IF page = failAt THEN [data |-> <<>>, reqs |-> reqs]
          ELSE LET data == RemotePage(Upper(symbol), current_ts, end_ts, PageLimit)
               IN IF data = <<>> THEN [acc EXCEPT !.reqs = reqs]
                  ELSE KlinesLoopFailsEmpty(symbol, data[Len(data)].t + 1, end_ts,
                                            page + 1, failAt,
                                            [data |-> acc.data \o data, reqs |-> reqs])

RECURSIVE KlinesLoopFromFirst(_, _, _, _, _, _)
\* the loop, were it to go on from the first candle of the page: data[0][0] + 1
KlinesLoopFromFirst(symbol, current_ts, end_ts, page, failAt, acc) ==
  IF ~(current_ts < end_ts) THEN acc
  ELSE LET reqs == Append(acc.reqs, current_ts)
       IN IF page = failAt THEN [acc EXCEPT !.reqs = reqs]
          ELSE LET data == RemotePage(Upper(symbol), current_ts, end_ts, PageLimit)
               IN IF data = <<>> THEN [acc EXCEPT !.reqs = reqs]
                  ELSE KlinesLoopFromFirst(symbol, data[1].t + 1, end_ts, page + 1, failAt,
                                           [data |-> acc.data \o data, reqs |-> reqs])

RECURSIVE KlinesLoopInclusive(_, _, _, _, _, _)
\* the loop, were it to go on while current_ts <= end_ts
KlinesLoopInclusive(symbol, current_ts, end_ts, page, failAt, acc) ==
  IF ~(current_ts <= end_ts) THEN acc
  ELSE LET reqs == Append(acc.reqs, current_ts)
       IN IF page = failAt THEN [acc EXCEPT !.reqs = reqs]
          ELSE LET data == RemotePage(Upper(symbol), current_ts, end_ts, PageLimit)
               IN IF data = <<>> THEN [acc EXCEPT !.reqs = reqs]
                  ELSE KlinesLoopInclusive(symbol, data[Len(data)].t + 1, end_ts, page + 1,
                                           failAt, [data |-> acc.data \o data, reqs |-> reqs])

RECURSIVE KlinesLoop(_, _, _, _, _, _)
\* the while loop of _download_binance_klines; page failAt raises in urlopen/json.loads
KlinesLoop(symbol, current_ts, end_ts, page, failAt, acc) ==
  IF ~(current_ts < end_ts) THEN acc
  ELSE LET reqs == Append(acc.reqs, current_ts)
       IN IF page = failAt THEN [acc EXCEPT !.reqs = reqs]
          ELSE LET data == RemotePage(Upper(symbol), current_ts, end_ts, PageLimit)
               IN IF data = <<>> THEN [acc EXCEPT !.reqs = reqs]
                  ELSE KlinesLoop(symbol, data[Len(data)].t + 1, end_ts, page + 1, failAt,
                                  [data |-> acc.data \o data, reqs |-> reqs])

\* _download_binance_klines: the candles fetched and the startTime of every request
download_binance_klines(symbol, start_date, end_date, failAt) ==
  KlinesLoop(symbol, LocalMidnight(start_date), LocalMidnight(end_date), 1, failAt,
             [data |-> <<>>, reqs |-> <<>>])

----------------------------------------------------------------------------
(* DataManager: encode *)

\* repr(float(p)) for a whole price p
FloatText(p) == Str(p) \o <<".", "0">>

\* repr(p * (1 + SPREAD)) for a whole price 0 < p < 10, in exact decimals
AskText(p) ==
  LET v == p * (SpreadDen + 1)
  IN Str(v \div SpreadDen) \o <<".">> \o Pad(v % SpreadDen, 4)

\* csv.writer.writerow of one candle: nine fields and "\r\n"
QuoteRow(candle) ==
  Join(<<Str(candle.t),
         FloatText(candle.o), FloatText(candle.h), FloatText(candle.l), FloatText(candle.c),
         AskText(candle.o), AskText(candle.h), AskText(candle.l), AskText(candle.c)>>,
       <<",">>) \o <<"\r", "\n">>

RECURSIVE CsvText(_)
CsvText(data) == IF data = <<>> THEN <<>> ELSE QuoteRow(data[1]) \o CsvText(Tail(data))

\* _save_to_lean_format, were it to name the entry after the symbol as it was given
save_to_lean_format_named(dir, data, symbol) ==
  IF data = <<>> THEN dir
  ELSE [dir EXCEPT ![ZipPath(symbol)] =
          ZipFile(<<[name |-> symbol \o DotCsv, data |-> CsvText(data)]>>, today)]

\* _save_to_lean_format, were it to lack its guard on empty data
save_to_lean_format_unguarded(dir, data, symbol) ==
  [dir EXCEPT ![ZipPath(symbol)] =
     ZipFile(<<[name |-> CsvName(symbol), data |-> CsvText(data)]>>, today)]

\* _save_to_lean_format: the directory after the write
save_to_lean_format(dir, data, symbol) ==
  IF data = <<>> THEN dir
  ELSE [dir EXCEPT ![ZipPath(symbol)] =
          ZipFile(<<[name |-> CsvName(symbol), data |-> CsvText(data)]>>, today)]

----------------------------------------------------------------------------
(* DataManager: status *)

SymbolStatus(symbol, available) ==
  [symbol |-> symbol, available |-> available, file_path |-> <<>>, file_size |-> 0,
   candles_count |-> 0, start_date |-> NoneDate, end_date |-> NoneDate,
   last_updated |-> NoneDate]

\* is_symbol_available, were it to open the archive
is_symbol_available_valid(dir, symbol) == dir[ZipPath(symbol)].kind = "zip"

\* is_symbol_available, were it to ask for an archive with an entry
is_symbol_available_readable(dir, symbol) ==
  dir[ZipPath(symbol)].kind = "zip" /\ dir[ZipPath(symbol)].entries # <<>>

\* is_symbol_available
is_symbol_available(dir, symbol) == Exists(dir, ZipPath(symbol))

\* lines[k].split(',')[0]
FirstField(line) == Split(line, ",")[1]

\* get_symbol_status, were it to give up only on a bad first line and to leave
\* end_date empty on a bad last line
get_symbol_status_lenient(dir, symbol) ==
  LET zip_file == ZipPath(symbol)
      f == dir[zip_file]
      lines == Split(Strip(f.entries[1].data), "\n")
      first == FirstField(lines[1])
      lastf == FirstField(lines[Len(lines)])
  IN IF ~Exists(dir, zip_file) THEN SymbolStatus(Upper(symbol), FALSE)
     ELSE IF f.kind # "zip" \/ f.entries = <<>> THEN SymbolStatus(Upper(symbol), FALSE)
     ELSE IF ~IntOk(first) THEN SymbolStatus(Upper(symbol), FALSE)
     ELSE IF DigitCount(first) > MaxTsDigits THEN SymbolStatus(Upper(symbol), FALSE)
     ELSE [symbol |-> Upper(symbol), available |-> TRUE, file_path |-> zip_file,
           file_size |-> FileSize(f), candles_count |-> Len(lines),
           start_date |-> LocalDate(IntVal(first)),
           end_date |-> IF IntOk(lastf) /\ DigitCount(lastf) <= MaxTsDigits
                        THEN LocalDate(IntVal(lastf)) ELSE NoneDate,
           last_updated |-> f.mtime]

\* get_symbol_status
get_symbol_status(dir, symbol) ==
  LET zip_file == ZipPath(symbol)
      f == dir[zip_file]
      lines == Split(Strip(f.entries[1].data), "\n")
      first == FirstField(lines[1])
      lastf == FirstField(lines[Len(lines)])
  IN IF ~Exists(dir, zip_file) THEN SymbolStatus(Upper(symbol), FALSE)
     ELSE IF f.kind # "zip" \/ f.entries = <<>> THEN SymbolStatus(Upper(symbol), FALSE)
     ELSE IF ~IntOk(first) \/ ~IntOk(lastf) THEN SymbolStatus(Upper(symbol), FALSE)
     ELSE IF DigitCount(first) > MaxTsDigits \/ DigitCount(lastf) > MaxTsDigits
          THEN SymbolStatus(Upper(symbol), FALSE)
     ELSE [symbol |-> Upper(symbol), available |-> TRUE, file_path |-> zip_file,
           file_size |-> FileSize(f), candles_count |-> Len(lines),
           start_date |-> LocalDate(IntVal(first)), end_date |-> LocalDate(IntVal(lastf)),
           last_updated |-> f.mtime]

\* get_available_symbols: the stems of *_quote.zip, upper-cased and sorted
RECURSIVE SortedTexts(_)
TextLess(a, b) ==
  \E i \in 1..Min({Len(a), Len(b)}) :
     /\ \A j \in 1..(i - 1) : a[j] = b[j]
     /\ \E x, y \in 1..4 : /\ <<"A", "B", "C", "D">>[x] = a[i]
                           /\ <<"A", "B", "C", "D">>[y] = b[i]
                           /\ x < y
SortedTexts(S) ==
  IF S = {} THEN <<>>
  ELSE LET m == CHOOSE x \in S : \A y \in S \ {x} : TextLess(x, y)
       IN <<m>> \o SortedTexts(S \ {m})

get_available_symbols(dir) ==
  SortedTexts({Upper(SubSeq(p, 1, Len(p) - Len(QuoteZip))) : p \in {q \in ZipPaths : Exists(dir, q)}})

\* check_symbols
check_symbols(dir, symbols) ==
  LET a == SelectSeq(symbols, LAMBDA s : is_symbol_available(dir, s))
      m == SelectSeq(symbols, LAMBDA s : ~is_symbol_available(dir, s))
  IN [available |-> [i \in DOMAIN a |-> Upper(a[i])],
      missing |-> [i \in DOMAIN m |-> Upper(m[i])]]

----------------------------------------------------------------------------
(* DataManager: download and update of one symbol *)

\* download_symbol, were it to remove the archive when the fetch gave nothing
download_symbol_cleans(dir, symbol, start_date, end_date, failAt, ioFail) ==
  LET sd == IF start_date = NoneDate THEN DEFAULT_START_DATE ELSE start_date
      ed == IF end_date = NoneDate THEN today ELSE end_date
      k == download_binance_klines(symbol, sd, ed, failAt)
      raised == k.data # <<>> /\ ioFail
      dir2 == IF raised THEN dir
              ELSE IF k.data = <<>> THEN [dir EXCEPT ![ZipPath(symbol)] = NoFile]
              ELSE save_to_lean_format(dir, k.data, symbol)
  IN [dir |-> dir2, raised |-> raised,
      status |-> IF raised THEN SymbolStatus(Upper(symbol), FALSE)
                 ELSE get_symbol_status(dir2, symbol),
      start |-> sd, reqs |-> k.reqs,
      fetched |-> [i \in DOMAIN k.data |-> k.data[i].t]]

\* download_symbol, were it to keep what it fetched only when no request failed
download_symbol_whole(dir, symbol, start_date, end_date, failAt, ioFail) ==
  LET sd == IF start_date = NoneDate THEN DEFAULT_START_DATE ELSE start_date
      ed == IF end_date = NoneDate THEN today ELSE end_date
      k == download_binance_klines(symbol, sd, ed, failAt)
      failed == failAt > 0 /\ failAt <= Len(k.reqs)
      raised == k.data # <<>> /\ ~failed /\ ioFail
      dir2 == IF raised \/ failed THEN dir ELSE save_to_lean_format(dir, k.data, symbol)
  IN [dir |-> dir2, raised |-> raised,
      status |-> IF raised THEN SymbolStatus(Upper(symbol), FALSE)
                 ELSE get_symbol_status(dir2, symbol),
      start |-> sd, reqs |-> k.reqs,
      fetched |-> [i \in DOMAIN k.data |-> k.data[i].t]]

\* download_symbol.  failAt is the page whose request fails (0: none); ioFail says
\* that opening the archive for writing raises OSError, which nothing catches.
download_symbol(dir, symbol, start_date, end_date, failAt, ioFail) ==
  LET sd == IF start_date = NoneDate THEN DEFAULT_START_DATE ELSE start_date
      ed == IF end_date = NoneDate THEN today ELSE end_date
      k == download_binance_klines(symbol, sd, ed, failAt)
      raised == k.data # <<>> /\ ioFail
      dir2 == IF raised THEN dir ELSE save_to_lean_format(dir, k.data, symbol)
  IN [dir |-> dir2, raised |-> raised,
      status |-> IF raised THEN SymbolStatus(Upper(symbol), FALSE)
                 ELSE get_symbol_status(dir2, symbol),
      start |-> sd, reqs |-> k.reqs,
      fetched |-> [i \in DOMAIN k.data |-> k.data[i].t]]

\* update_symbol, were it to resume on the day after the last one held
UpdateStartNextDay(status) ==
  IF status.available /\ status.end_date # NoneDate THEN status.end_date + 1
  ELSE DEFAULT_START_DATE

\* the start date update_symbol resumes from
UpdateStart(status) ==
  IF status.available /\ status.end_date # NoneDate THEN status.end_date
  ELSE DEFAULT_START_DATE

\* update_symbol, were it to leave alone a symbol whose status is not available
update_symbol_existing(dir, symbol, failAt, ioFail) ==
  IF get_symbol_status(dir, symbol).available
  THEN download_symbol(dir, symbol, UpdateStart(get_symbol_status(dir, symbol)), NoneDate,
                       failAt, ioFail)
  ELSE [dir |-> dir, raised |-> FALSE, status |-> get_symbol_status(dir, symbol),
        start |-> DEFAULT_START_DATE, reqs |-> <<>>, fetched |-> <<>>]

\* update_symbol
update_symbol(dir, symbol, failAt, ioFail) ==
  download_symbol(dir, symbol, UpdateStart(get_symbol_status(dir, symbol)), NoneDate,
                  failAt, ioFail)

----------------------------------------------------------------------------
(* The standalone downloader: download_binance_data.py *)

RECURSIVE StandaloneLoop(_, _, _, _, _, _)
\* the while loop of download_binance_klines: the symbol goes out as it was given
StandaloneLoop(symbol, current_ts, end_ts, page, failAt, acc) ==
  IF ~(current_ts < end_ts) THEN acc
  ELSE LET reqs == Append(acc.reqs, current_ts)
       IN IF page = failAt THEN [acc EXCEPT !.reqs = reqs]
          ELSE LET data == RemotePage(symbol, current_ts, end_ts, PageLimit)
               IN IF data = <<>> THEN [acc EXCEPT !.reqs = reqs]
                  ELSE StandaloneLoop(symbol, data[Len(data)].t + 1, end_ts, page + 1, failAt,
                                      [data |-> acc.data \o data, reqs |-> reqs])

\* download_binance_klines of the standalone downloader
standalone_klines(symbol, start_date, end_date, failAt) ==
  StandaloneLoop(symbol, LocalMidnight(start_date), LocalMidnight(end_date), 1, failAt,
                 [data |-> <<>>, reqs |-> <<>>])

\* convert_to_lean_quote_format: it writes the archive whatever data holds
convert_to_lean_quote_format(dir, data, symbol) ==
  [dir EXCEPT ![ZipPath(symbol)] =
     ZipFile(<<[name |-> CsvName(symbol), data |-> CsvText(data)]>>, today)]

\* one turn of download_symbols, were it to lack its test of data
download_symbols_turn_unguarded(dir, symbol, start_date, end_date, failAt, ioFail) ==
  LET k == standalone_klines(symbol, start_date, end_date, failAt)
  IN [dir |-> IF ioFail THEN dir ELSE convert_to_lean_quote_format(dir, k.data, symbol),
      raised |-> ioFail, status |-> SymbolStatus(Upper(symbol), FALSE),
      start |-> start_date, reqs |-> k.reqs,
      fetched |-> [i \in DOMAIN k.data |-> k.data[i].t]]

\* one turn of the loop of download_symbols; ioFail: opening the archive for writing
\* raises OSError.  The function returns nothing: status is a placeholder.
download_symbols_turn(dir, symbol, start_date, end_date, failAt, ioFail) ==
  LET k == standalone_klines(symbol, start_date, end_date, failAt)
      raised == k.data # <<>> /\ ioFail
  IN [dir |-> IF raised \/ k.data = <<>> THEN dir
              ELSE convert_to_lean_quote_format(dir, k.data, symbol),
      raised |-> raised, status |-> SymbolStatus(Upper(symbol), FALSE),
      start |-> start_date, reqs |-> k.reqs,
      fetched |-> [i \in DOMAIN k.data |-> k.data[i].t]]

----------------------------------------------------------------------------
(* The converter: convert_quote_data.py *)

\* "%Y%m%d" of a day number from 0 (2022-12-31) to 31 (2023-01-31)
YmdText(d) ==
  IF d = 0 THEN <<"2", "0", "2", "2", "1", "2", "3", "1">>
  ELSE <<"2", "0", "2", "3", "0", "1">> \o Pad(d, 2)

\* convert_timestamp, were it to write the epoch in seconds
convert_timestamp_seconds(ts_ms) == Str(ts_ms \div 1000)

\* convert_timestamp, were it to use fromtimestamp, the host's local time
convert_timestamp_local(ts_ms) ==
  YmdText(LocalDate(ts_ms)) \o <<" ">> \o Pad(((ts_ms + tz * HourMs) % DayMs) \div HourMs, 2)
    \o <<":">> \o Pad((ts_ms % HourMs) \div (60 * 1000), 2)

\* convert_timestamp: "%Y%m%d %H:%M" of ts_ms in UTC
convert_timestamp(ts_ms) ==
  YmdText(UtcDate(ts_ms)) \o <<" ">> \o Pad((ts_ms % DayMs) \div HourMs, 2)
    \o <<":">> \o Pad((ts_ms % HourMs) \div (60 * 1000), 2)

\* what convert_line gives when an exception leaves it
Raised == <<"raised">>

\* convert_line: the Lean row of a line, <<>> for None, or Raised: the handler
\* catches ValueError and IndexError only
convert_line(line) ==
  LET parts == Split(Strip(line), ",")
  IN IF Len(parts) < 9 THEN <<>>
     ELSE IF ~IntOk(parts[1]) THEN <<>>
     ELSE IF DigitCount(parts[1]) >= RaiseTsDigits THEN Raised
     ELSE IF DigitCount(parts[1]) > MaxTsDigits THEN <<>>
     ELSE Join(<<convert_timestamp(IntVal(parts[1]))>> \o SubSeq(parts, 2, 5) \o <<<<"0">>>>
                 \o SubSeq(parts, 6, 9) \o <<<<"0">>>>, <<",">>)

\* the rows convert_zip_file keeps: the converted non-blank lines that gave a row
RECURSIVE ConvertLines(_)
ConvertLines(lines) ==
  IF lines = <<>> THEN <<>>
  ELSE LET rest == ConvertLines(Tail(lines))
           result == convert_line(lines[1])
       IN IF Strip(lines[1]) # <<>> /\ result # <<>> THEN <<result>> \o rest ELSE rest

\* whether convert_zip_file takes the first line for one already in Lean format
AlreadyLean(lines) == lines # <<>> /\ ~IsDigit(Split(lines[1], ",")[1])

\* whether an exception leaves the loop over the lines
ConvertRaises(lines) ==
  \E i \in DOMAIN lines : Strip(lines[i]) # <<>> /\ convert_line(lines[i]) = Raised

\* convert_zip_file up to its first write: what it decides and what it would write
ConvertRead(dir, input_path) ==
  LET f == dir[input_path]
      lines == SplitLines(f.entries[1].data)
      converted == ConvertLines(lines)
      none == [outcome |-> "raised", out |-> <<>>, csv_name |-> <<>>]
  IN IF f.kind # "zip" THEN none
     ELSE IF f.entries = <<>> THEN [none EXCEPT !.outcome = "empty"]
     ELSE IF AlreadyLean(lines) THEN [none EXCEPT !.outcome = "skip"]
     ELSE IF ConvertRaises(lines) THEN none
     ELSE IF converted = <<>> THEN [none EXCEPT !.outcome = "nodata"]
     ELSE [outcome |-> "convert", out |-> Join(converted, <<"\n">>),
           csv_name |-> f.entries[1].name]

\* convert_zip_file, were it to go straight to the write
AfterReadNoBackup(backup, inPlace) == "open"

\* the step that follows the read: the backup when writing in place with backup=True
AfterRead(backup, inPlace) == IF backup /\ inPlace THEN "backup" ELSE "open"

\* convert_zip_file, were it to make its backup whenever backup is set
convert_zip_file_backs(dir, input_path, output, backup) ==
  LET output_path == IF output = <<>> THEN input_path ELSE output
      c == ConvertRead(dir, input_path)
      backed == IF backup THEN [dir EXCEPT ![BackupPath(input_path)] = dir[input_path]]
                ELSE dir
  IN [outcome |-> c.outcome,
      dir |-> IF c.outcome = "convert"
              THEN [backed EXCEPT ![output_path] =
                      ZipFile(<<[name |-> c.csv_name, data |-> c.out]>>, today)]
              ELSE dir]

\* convert_zip_file(input_path, output_path, backup) from call to return; output is
\* <<>> for None.  What it decided, and the directory it leaves.
convert_zip_file(dir, input_path, output, backup) ==
  LET output_path == IF output = <<>> THEN input_path ELSE output
      c == ConvertRead(dir, input_path)
      backed == IF AfterRead(backup, input_path = output_path) = "backup"
                THEN [dir EXCEPT ![BackupPath(input_path)] = dir[input_path]]
                ELSE dir
  IN [outcome |-> c.outcome,
      dir |-> IF c.outcome = "convert"
              THEN [backed EXCEPT ![output_path] =
                      ZipFile(<<[name |-> c.csv_name, data |-> c.out]>>, today)]
              ELSE dir]

\* the sequences that list every element of S once: the orders glob may yield
Orders(S) == {q \in [1..Cardinality(S) -> S] : \A i, j \in DOMAIN q : q[i] = q[j] => i = j}

----------------------------------------------------------------------------
(* State *)

Idle == [op |-> "idle", queue |-> <<>>, done |-> <<>>, arg |-> <<>>, phase |-> "",
         out |-> <<>>, csv_name |-> <<>>, orig |-> NoFile]

Last(op, syms) == [op |-> op, syms |-> syms, start |-> NoneDate, reqs |-> <<>>,
                   fetched |-> <<>>, todo |-> <<>>, left |-> <<>>, log |-> <<>>,
                   orig |-> NoFile, prior |-> SymbolStatus(<<>>, FALSE), failAt |-> 0]

Ret(outcome) == [outcome |-> outcome, statuses |-> <<>>, available |-> <<>>,
                 missing |-> <<>>]

\* lists of at most MaxSyms symbols, duplicates allowed
SymLists == UNION {[1..n -> Symbols] : n \in 0..MaxSyms}

\* the pages at which a fetch may be made to fail (0: no failure)
FailAts == 0..((MaxDay + RemotePageCap - 1) \div RemotePageCap + 1)

EmptyDir == [p \in AllPaths |-> NoFile]

\* a line of text and its "\r\n"
TextLine(t) == t \o <<"\r", "\n">>

\* an archive of epoch rows that was edited by hand: between and after two rows as
\* the encoder writes them (the second one of 22:13 UTC), a row cut short and a row
\* without a timestamp
EditedCsv ==
  QuoteRow(RemoteCandle(1))
    \o TextLine(<<"1", "7", "2", "8", "0", "0", "0", "0", "0", ",", "3", ".", "0">>)
    \o QuoteRow([RemoteCandle(3) EXCEPT !.t = 3 * DayMs + 22 * HourMs + 13 * 60 * 1000])
    \o TextLine(<<"n", "a", ",", "1", ",", "1", ",", "1", ",", "1", ",", "1", ",", "1",
                   ",", "1", ",", "1">>)

\* an archive of epoch rows whose last row has a timestamp of twenty digits
LongStampCsv ==
  QuoteRow(RemoteCandle(1))
    \o TextLine([i \in 1..RaiseTsDigits |-> "9"]
                 \o <<",", "1", ",", "1", ",", "1", ",", "1", ",", "1", ",", "1",
                      ",", "1", ",", "1">>)

\* the directory as the program may find it: empty, or holding an archive of market
\* "CD" that an interrupted write left unreadable, or an archive of market "AB" that
\* holds no entry or that was edited by hand
InitDirs ==
  {EmptyDir,
   [EmptyDir EXCEPT ![ZipPath(<<"C", "d">>)] = BadFile(0)],
   [EmptyDir EXCEPT ![ZipPath(<<"A", "B">>)] = ZipFile(<<>>, 0)],
   [EmptyDir EXCEPT ![ZipPath(<<"A", "B">>)] =
      ZipFile(<<[name |-> CsvName(<<"A", "B">>), data |-> EditedCsv]>>, 0)],
   [EmptyDir EXCEPT ![ZipPath(<<"A", "B">>)] =
      ZipFile(<<[name |-> CsvName(<<"A", "B">>), data |-> LongStampCsv]>>, 0)]}

Init ==
  /\ fs \in InitDirs
  /\ today = DEFAULT_START_DATE
  /\ tz \in TZOffsets
  /\ run = Idle
  /\ last = Last("idle", <<>>)
  /\ ret = Ret("none")

\* no operation is in progress and the caller has taken the last result
Ready == run.op = "idle" /\ last.op = "idle"

----------------------------------------------------------------------------
(* Operations that return in one step *)

\* check_symbols(symbols)
Check(symbols) ==
  /\ Ready
  /\ last' = Last("check", symbols)
  /\ ret' = [Ret("ok") EXCEPT !.available = check_symbols(fs, symbols).available,
                              !.missing = check_symbols(fs, symbols).missing]
  /\ UNCHANGED <<fs, today, tz, run>>

\* get_symbol_status(symbol), were it to open the archive in append mode, which
\* creates an archive that is not there
InspectCreates(symbol) ==
  /\ Ready
  /\ last' = Last("inspect", <<symbol>>)
  /\ ret' = [Ret("ok") EXCEPT !.statuses = <<get_symbol_status(fs, symbol)>>]
  /\ fs' = IF Exists(fs, ZipPath(symbol)) THEN fs
           ELSE [fs EXCEPT ![ZipPath(symbol)] = ZipFile(<<>>, today)]
  /\ UNCHANGED <<today, tz, run>>

\* get_symbol_status(symbol)
Inspect(symbol) ==
  /\ Ready
  /\ last' = Last("inspect", <<symbol>>)
  /\ ret' = [Ret("ok") EXCEPT !.statuses = <<get_symbol_status(fs, symbol)>>]
  /\ UNCHANGED <<fs, today, tz, run>>

\* what a download or an update of one symbol leaves in last and ret
LastOf(l, r) == [l EXCEPT !.start = r.start, !.reqs = r.reqs, !.fetched = r.fetched]
RetOf(r) == IF r.raised THEN Ret("raised") ELSE [Ret("ok") EXCEPT !.statuses = <<r.status>>]

\* download_symbol(symbol)
DownloadOne(symbol, failAt, ioFail) ==
  /\ Ready
  /\ LET r == download_symbol(fs, symbol, NoneDate, NoneDate, failAt, ioFail)
     IN /\ fs' = r.dir
        /\ last' = [LastOf(Last("download_symbol", <<symbol>>), r)
                      EXCEPT !.failAt = failAt, !.orig = fs[ZipPath(symbol)]]
        /\ ret' = RetOf(r)
  /\ UNCHANGED <<today, tz, run>>

\* update_symbol(symbol)
UpdateOne(symbol, failAt, ioFail) ==
  /\ Ready
  /\ LET r == update_symbol(fs, symbol, failAt, ioFail)
     IN /\ fs' = r.dir
        /\ last' = [LastOf(Last("update_symbol", <<symbol>>), r)
                      EXCEPT !.prior = get_symbol_status(fs, symbol), !.failAt = failAt,
                             !.orig = fs[ZipPath(symbol)]]
        /\ ret' = RetOf(r)
  /\ UNCHANGED <<today, tz, run>>

\* main() of the standalone downloader with one symbol on the command line:
\* download_symbols([symbol], "1d", "2023-01-01", today, output_dir)
StandaloneMain(symbol, failAt, ioFail) ==
  /\ Ready
  /\ LET r == download_symbols_turn(fs, symbol, DEFAULT_START_DATE, today, failAt, ioFail)
     IN /\ fs' = r.dir
        /\ last' = [LastOf(Last("standalone", <<symbol>>), r)
                      EXCEPT !.failAt = failAt, !.orig = fs[ZipPath(symbol)]]
        /\ ret' = IF r.raised THEN Ret("raised") ELSE Ret("ok")
  /\ UNCHANGED <<today, tz, run>>

\* DELETE /data/symbol/{symbol}, were it to unlink with missing_ok and answer ok
DeleteQuiet(symbol) ==
  /\ Ready
  /\ last' = Last("delete", <<symbol>>)
  /\ fs' = [fs EXCEPT ![ZipPath(symbol)] = NoFile]
  /\ ret' = Ret("ok")
  /\ UNCHANGED <<today, tz, run>>

\* DELETE /data/symbol/{symbol}
Delete(symbol) ==
  /\ Ready
  /\ last' = Last("delete", <<symbol>>)
  /\ IF Exists(fs, ZipPath(symbol))
     THEN /\ fs' = [fs EXCEPT ![ZipPath(symbol)] = NoFile]
          /\ ret' = Ret("ok")
     ELSE /\ fs' = fs
          /\ ret' = Ret("not_found")
  /\ UNCHANGED <<today, tz, run>>

\* the caller takes the result of the operation that returned
Return ==
  /\ run.op = "idle"
  /\ last.op # "idle"
  /\ last' = Last("idle", <<>>)
  /\ ret' = Ret("none")
  /\ UNCHANGED <<fs, today, tz, run>>

\* the host's date advances
Tick ==
  /\ Ready
  /\ today < MaxDay
  /\ today' = today + 1
  /\ UNCHANGED <<fs, tz, run, last, ret>>

----------------------------------------------------------------------------
(* Operations that loop over symbols *)

\* a loop over queue begins, or returns at once when there is nothing to do
BeginLoop(op, arg, queue, emptyRet) ==
  /\ last' = [Last(op, arg) EXCEPT !.todo = queue]
  /\ IF queue = <<>>
     THEN run' = Idle /\ ret' = emptyRet
     ELSE /\ run' = [Idle EXCEPT !.op = op, !.arg = arg, !.queue = queue]
          /\ ret' = Ret("none")
  /\ UNCHANGED <<fs, today, tz>>

\* download_missing(symbols), were it to loop over every symbol it was given
DownloadMissingAll(symbols) ==
  /\ Ready
  /\ BeginLoop("download_missing", symbols, [i \in DOMAIN symbols |-> Upper(symbols[i])],
               Ret("ok"))

\* download_missing(symbols): check_symbols, then the loop over check["missing"]
DownloadMissing(symbols) ==
  /\ Ready
  /\ BeginLoop("download_missing", symbols, check_symbols(fs, symbols).missing, Ret("ok"))

\* ensure_symbols(symbols): check_symbols, then download_missing(check["missing"])
Ensure(symbols) ==
  /\ Ready
  /\ LET check == check_symbols(fs, symbols)
     IN BeginLoop("ensure", symbols, check_symbols(fs, check.missing).missing,
                  [Ret("ok") EXCEPT !.available = check.available,
                                    !.missing = check.missing])

\* update_all(): the loop over get_available_symbols()
UpdateAll ==
  /\ Ready
  /\ BeginLoop("update_all", <<>>, get_available_symbols(fs), Ret("ok"))

\* what the loop returns, were ensure_symbols to check the directory as it was
\* before the last download
LoopResultStale(op, arg, dir, done) ==
  IF op = "ensure"
  THEN [Ret("ok") EXCEPT !.available = check_symbols(fs, arg).available,
                         !.missing = check_symbols(fs, arg).missing]
  ELSE [Ret("ok") EXCEPT !.statuses = done]

\* what the loop returns once every symbol has a status
LoopResult(op, arg, dir, done) ==
  IF op = "ensure"
  THEN [Ret("ok") EXCEPT !.available = check_symbols(dir, arg).available,
                         !.missing = check_symbols(dir, arg).missing]
  ELSE [Ret("ok") EXCEPT !.statuses = done]

\* one turn of the loop, r being what the download or update of the symbol did:
\* an exception leaves the loop and the operation
LoopTurn(r) ==
  LET done == Append(run.done, r.status)
      queue == Tail(run.queue)
  IN /\ fs' = r.dir
     /\ last' = [LastOf(last, r) EXCEPT !.left = IF r.raised THEN queue ELSE <<>>]
     /\ IF r.raised THEN run' = Idle /\ ret' = Ret("raised")
        ELSE IF queue = <<>>
             THEN run' = Idle /\ ret' = LoopResult(run.op, run.arg, r.dir, done)
             ELSE run' = [run EXCEPT !.queue = queue, !.done = done] /\ ret' = ret
     /\ UNCHANGED <<today, tz>>

\* for symbol in check["missing"]: download_symbol(symbol)
DownloadStep(failAt, ioFail) ==
  /\ run.op \in {"download_missing", "ensure"}
  /\ LoopTurn(download_symbol(fs, Head(run.queue), NoneDate, NoneDate, failAt, ioFail))

\* for symbol in symbols: update_symbol(symbol)
UpdateStep(failAt, ioFail) ==
  /\ run.op = "update_all"
  /\ LoopTurn(update_symbol(fs, Head(run.queue), failAt, ioFail))

----------------------------------------------------------------------------
(* The converter's main *)

\* main(): one zip file, or every *_quote.zip of the directory in glob's order
ConvertMain(queue) ==
  /\ Ready
  /\ last' = [Last("convert", <<>>) EXCEPT !.todo = queue]
  /\ IF queue = <<>>
     THEN run' = Idle /\ ret' = Ret("ok")
     ELSE /\ run' = [Idle EXCEPT !.op = "convert", !.queue = queue, !.phase = "read"]
          /\ ret' = Ret("none")
  /\ UNCHANGED <<fs, today, tz>>

\* convert_zip_file returned: main goes on to the next file, or returns
NextFile(r, outcome) ==
  LET queue == Tail(r.queue)
  IN /\ last' = [last EXCEPT !.log = Append(last.log, outcome)]
     /\ IF queue = <<>>
        THEN run' = Idle /\ ret' = Ret("ok")
        ELSE /\ run' = [Idle EXCEPT !.op = "convert", !.queue = queue, !.phase = "read"]
             /\ ret' = ret

\* convert_zip_file(path), lines 55 to 86: read, detect, convert
ConvertFile ==
  /\ run.op = "convert" /\ run.phase = "read"
  /\ LET path == Head(run.queue)
         c == ConvertRead(fs, path)
     IN CASE c.outcome = "raised" ->
               /\ run' = Idle
               /\ ret' = Ret("raised")
               /\ last' = [last EXCEPT !.left = Tail(run.queue),
                                       !.log = Append(last.log, "raised")]
          [] c.outcome = "convert" ->
               /\ run' = [run EXCEPT !.phase = AfterRead(TRUE, TRUE), !.out = c.out,
                                     !.csv_name = c.csv_name, !.orig = fs[path]]
               /\ last' = [last EXCEPT !.orig = fs[path]]
               /\ ret' = ret
          [] OTHER -> NextFile(run, c.outcome)
  /\ UNCHANGED <<fs, today, tz>>

\* shutil.copy2 opens the backup for writing
BackupOpen ==
  /\ run.op = "convert" /\ run.phase = "backup"
  /\ fs' = [fs EXCEPT ![BackupPath(Head(run.queue))] = BadFile(today)]
  /\ run' = [run EXCEPT !.phase = "copying"]
  /\ UNCHANGED <<today, tz, last, ret>>

\* shutil.copy2 has copied the bytes and the file times
BackupDone ==
  /\ run.op = "convert" /\ run.phase = "copying"
  /\ fs' = [fs EXCEPT ![BackupPath(Head(run.queue))] = fs[Head(run.queue)]]
  /\ run' = [run EXCEPT !.phase = "open"]
  /\ UNCHANGED <<today, tz, last, ret>>

\* zipfile.ZipFile(output_path, 'w') truncates the archive
OutputOpen ==
  /\ run.op = "convert" /\ run.phase = "open"
  /\ fs' = [fs EXCEPT ![Head(run.queue)] = BadFile(today)]
  /\ run' = [run EXCEPT !.phase = "writing"]
  /\ UNCHANGED <<today, tz, last, ret>>

\* zf.write(tmp_path, csv_name) and the close of the archive
OutputDone ==
  /\ run.op = "convert" /\ run.phase = "writing"
  /\ fs' = [fs EXCEPT ![Head(run.queue)] =
              ZipFile(<<[name |-> run.csv_name, data |-> run.out]>>, today)]
  /\ NextFile(run, "converted")
  /\ UNCHANGED <<today, tz>>

\* the converter is killed between two steps of a write
Crash ==
  /\ run.op = "convert" /\ run.phase \in {"backup", "copying", "open", "writing"}
  /\ run' = Idle
  /\ ret' = Ret("crashed")
  /\ last' = [last EXCEPT !.left = run.queue, !.log = Append(last.log, "crashed")]
  /\ UNCHANGED <<fs, today, tz>>

\* what main may be given: a zip file of the directory, or the directory
ConvertArgs ==
  LET there == {p \in ZipPaths : Exists(fs, p)}
  IN {<<p>> : p \in there} \cup Orders(there)

----------------------------------------------------------------------------

Next ==
  \/ \E symbols \in SymLists : Check(symbols)
  \/ \E symbol \in Symbols : Inspect(symbol)
  \/ \E symbol \in Symbols, failAt \in FailAts, ioFail \in BOOLEAN :
        DownloadOne(symbol, failAt, ioFail)
  \/ \E symbol \in Symbols, failAt \in FailAts, ioFail \in BOOLEAN :
        UpdateOne(symbol, failAt, ioFail)
  \/ \E symbol \in Symbols, failAt \in FailAts, ioFail \in BOOLEAN :
        StandaloneMain(symbol, failAt, ioFail)
  \/ \E symbol \in Symbols : Delete(symbol)
  \/ \E symbols \in SymLists : DownloadMissing(symbols)
  \/ \E symbols \in SymLists : Ensure(symbols)
  \/ UpdateAll
  \/ \E failAt \in FailAts, ioFail \in BOOLEAN : DownloadStep(failAt, ioFail)
  \/ \E failAt \in FailAts, ioFail \in BOOLEAN : UpdateStep(failAt, ioFail)
  \/ \E queue \in ConvertArgs : ConvertMain(queue)
  \/ ConvertFile
  \/ BackupOpen
  \/ BackupDone
  \/ OutputOpen
  \/ OutputDone
  \/ Crash
  \/ Return
  \/ Tick

Spec == Init /\ [][Next]_vars

----------------------------------------------------------------------------
(* Properties *)

Range(q) == {q[i] : i \in DOMAIN q}

\* the symbol whose archive is at path p
SymbolOf(p) == SubSeq(p, 1, Len(p) - Len(QuoteZip))

\* the open times of the rows of an archive of epoch rows
RowTimes(f) ==
  LET lines == SplitLines(f.entries[1].data)
  IN [i \in DOMAIN lines |-> IntVal(FirstField(lines[i]))]

\* the fields of every row of an archive
RowFields(f) ==
  LET lines == SplitLines(f.entries[1].data)
  IN [i \in DOMAIN lines |-> Split(lines[i], ",")]

\* the operation op has returned (or raised) and its result has not been taken yet
Returned(op) == last.op = op /\ run.op = "idle"

\* C1: check(S) returns available and missing whose elements together are the
\* upper-cased elements of S, with no symbol in both, and a symbol is in available
\* exactly when a file exists at its lower-case path, whatever the file holds.
C1_CheckPartition ==
  Returned("check") =>
    LET S == last.syms
        A == Range(ret.available)
        M == Range(ret.missing)
    IN /\ A \cup M = {Upper(S[i]) : i \in DOMAIN S}
       /\ A \cap M = {}
       /\ \A i \in DOMAIN S : Upper(S[i]) \in A <=> fs[Lower(S[i]) \o QuoteZip].kind # "none"

\* check of two spellings of one market whose archive exists
C1_Witness ==
  /\ Returned("check")
  /\ Len(last.syms) = 2
  /\ last.syms[1] # last.syms[2]
  /\ ret.available = <<<<"A", "B">>, <<"A", "B">>>>

\* C2: update_one of a symbol whose status has a known end_date d starts its fetch at
\* d itself, issues its first request at the local midnight of d whenever d is before
\* today, and, when candles came back, leaves an archive that holds exactly the
\* fetched candles, none of them older than the start of the fetched range.
C2_UpdateStep ==
  LET symbol == last'.syms[1]
      path == ZipPath(symbol)
      status == get_symbol_status(fs, symbol)
      d == status.end_date
  IN (/\ last.op = "idle" /\ last'.op = "update_symbol"
      /\ status.available /\ d # NoneDate)
     => /\ last'.start = d
        /\ d < today => last'.reqs # <<>> /\ last'.reqs[1] = d * DayMs - tz * HourMs
        /\ (last'.fetched # <<>> /\ ret'.outcome = "ok")
             => /\ RowTimes(fs'[path]) = last'.fetched
                /\ \A i \in DOMAIN last'.fetched :
                      last'.fetched[i] >= d * DayMs - tz * HourMs
                /\ \A t \in Range(RowTimes(fs[path])) :
                      t < d * DayMs - tz * HourMs => t \notin Range(RowTimes(fs'[path]))

C2_UpdateReplaces == [][C2_UpdateStep]_vars

\* an update that resumed from a later day than the archive began and dropped the
\* archive's earlier rows
C2_Witness ==
  /\ Returned("update_symbol")
  /\ ret.outcome = "ok"
  /\ last.fetched # <<>>
  /\ last.prior.available
  /\ last.prior.start_date < last.start
  /\ ret.statuses[1].start_date > last.prior.start_date

\* C3: download_one whose fetch returned no candle changes no file and returns the
\* status inspect gave before the call.
C3_EmptyStep ==
  (/\ last.op = "idle" /\ last'.op = "download_symbol"
   /\ last'.fetched = <<>>)
  => /\ fs' = fs
     /\ ret'.outcome = "ok"
     /\ ret'.statuses = <<get_symbol_status(fs, last'.syms[1])>>

C3_EmptyFetchWritesNothing == [][C3_EmptyStep]_vars

\* a download that fetched nothing for a symbol whose archive is there and readable
C3_Witness ==
  /\ Returned("download_symbol")
  /\ last.fetched = <<>>
  /\ last.reqs # <<>>
  /\ ret.statuses[1].available

\* C4: encoding a non-empty candle sequence and then inspecting the symbol gives
\* available=true, row_count the number of candles, and start_date and end_date the
\* calendar dates (UTC) of the first and of the last candle.
C4_RoundTrip ==
  (/\ Returned("download_symbol")
   /\ ret.outcome = "ok"
   /\ last.fetched # <<>>)
  => LET status == ret.statuses[1]
     IN /\ status.available
        /\ status.candles_count = Len(last.fetched)
        /\ status.start_date = last.fetched[1] \div DayMs
        /\ status.end_date = last.fetched[Len(last.fetched)] \div DayMs

\* C5: inspect reads an archive of date-key rows as it reads one of epoch rows: after
\* convert has rewritten an archive, inspect gives available=true and the row count
\* and dates it gave for the archive before the conversion.
C5_InspectAfterConvert ==
  (/\ Returned("convert")
   /\ ret.outcome = "ok"
   /\ last.log # <<>>
   /\ last.log[Len(last.log)] = "converted")
  => LET path == last.todo[Len(last.todo)]
         now == get_symbol_status(fs, SymbolOf(path))
         before == get_symbol_status([fs EXCEPT ![path] = last.orig], SymbolOf(path))
     IN /\ now.available
        /\ now.candles_count = before.candles_count
        /\ now.start_date = before.start_date
        /\ now.end_date = before.end_date

C7_ConvertIdempotent ==
  (Returned("convert") /\ ret.outcome = "ok")
  => \A i \in DOMAIN last.todo :
        ConvertRead(fs, last.todo[i]).outcome \in {"empty", "skip", "nodata"}

\* a second application: convert skipped an archive whose backup an earlier
\* conversion had made
C7_Witness ==
  /\ Returned("convert")
  /\ ret.outcome = "ok"
  /\ last.log = <<"skip">>
  /\ fs[BackupPath(last.todo[1])].kind = "zip"
  /\ fs[last.todo[1]].kind = "zip"

\* C8: while convert writes in place with backup=true, and after it returned or was
\* killed, the backup path holds the original archive byte for byte in every state in
\* which the final path no longer holds the original bytes.
C8_BackupBeforeOverwrite ==
  /\ (run.op = "convert" /\ run.phase # "read")
       => (fs[Head(run.queue)] # run.orig => fs[BackupPath(Head(run.queue))] = run.orig)
  /\ (Returned("convert") /\ ret.outcome = "crashed")
       => (fs[Head(last.left)] # last.orig => fs[BackupPath(Head(last.left))] = last.orig)
  /\ (Returned("convert") /\ ret.outcome = "ok" /\ last.log # <<>>
        /\ last.log[Len(last.log)] = "converted")
       => fs[BackupPath(last.todo[Len(last.todo)])] = last.orig

\* convert was killed after it had truncated the archive: the backup is whole
C8_Witness ==
  /\ Returned("convert")
  /\ ret.outcome = "crashed"
  /\ fs[Head(last.left)].kind = "bad"
  /\ fs[BackupPath(Head(last.left))] = last.orig
  /\ last.orig.kind = "zip"

\* C9: download_missing and update_all always return one status per symbol of their
\* list, in order, and a failure for one symbol leaves no later symbol unprocessed.
C9_BatchCompletes ==
  (Returned("download_missing") \/ Returned("update_all"))
  => /\ last.left = <<>>
     /\ ret.outcome = "ok" =>
          /\ Len(ret.statuses) = Len(last.todo)
          /\ \A i \in DOMAIN last.todo : ret.statuses[i].symbol = Upper(last.todo[i])

\* C10: the converter's batch over a directory attempts every *_quote.zip: a file
\* that cannot be read leaves no later file unattempted, and every other archive of
\* epoch rows is converted.
C10_BatchConvertsAll ==
  (Returned("convert") /\ ret.outcome # "crashed")
  => /\ last.left = <<>>
     /\ \A i \in DOMAIN last.todo :
           fs[last.todo[i]].kind = "zip" => ConvertRead(fs, last.todo[i]).outcome # "convert"

\* a date-key: "yyyyMMdd HH:mm"
IsDateKey(t) ==
  /\ Len(t) = 14
  /\ \A i \in {1, 2, 3, 4, 5, 6, 7, 8, 10, 11, 13, 14} : IsDigitChar(t[i])
  /\ t[9] = " "
  /\ t[12] = ":"

\* the first fields of the first and of the last line of an archive's entry
BoundaryFields(f) ==
  LET lines == Split(Strip(f.entries[1].data), "\n")
  IN {FirstField(lines[1]), FirstField(lines[Len(lines)])}

\* an archive file inspect cannot read: no zip archive, no entry, or a boundary line
\* whose first field is neither an epoch nor a date-key
Unreadable(f) ==
  \/ f.kind = "bad"
  \/ f.kind = "zip" /\ f.entries = <<>>
  \/ f.kind = "zip" /\ f.entries # <<>>
       /\ \E t \in BoundaryFields(f) : ~IsDigit(t) /\ ~IsDateKey(t)

\* C11: inspect of an archive file that is corrupt, holds no entry, or has a boundary
\* line whose first field is neither an epoch nor a date-key returns, without an
\* error, available=false and every derived field empty, as for an absent archive.
C11_InspectAbsorbs ==
  (Returned("inspect") /\ Unreadable(fs[ZipPath(last.syms[1])]))
  => /\ ret.outcome = "ok"
     /\ ret.statuses =
          <<[symbol |-> Upper(last.syms[1]), available |-> FALSE, file_path |-> <<>>,
             file_size |-> 0, candles_count |-> 0, start_date |-> NoneDate,
             end_date |-> NoneDate, last_updated |-> NoneDate]>>
     /\ ret.statuses[1] = get_symbol_status(EmptyDir, last.syms[1])

\* inspect of an archive whose first line is an epoch row and whose last line is not
C11_Witness ==
  /\ Returned("inspect")
  /\ fs[ZipPath(last.syms[1])].kind = "zip"
  /\ fs[ZipPath(last.syms[1])].entries # <<>>
  /\ \E t \in BoundaryFields(fs[ZipPath(last.syms[1])]) : IsDigit(t)
  /\ \E t \in BoundaryFields(fs[ZipPath(last.syms[1])]) : ~IsDigit(t) /\ ~IsDateKey(t)
  /\ ~ret.statuses[1].available

\* C12: inspect of a symbol with no file at its path returns available=false, no
\* file_path, start_date, end_date or last_updated, size and row count zero, and
\* leaves every file as it was.
C12_Step ==
  (/\ last.op = "idle" /\ last'.op = "inspect"
   /\ fs[Lower(last'.syms[1]) \o QuoteZip].kind = "none")
  => /\ fs' = fs
     /\ ret'.outcome = "ok"
     /\ Len(ret'.statuses) = 1
     /\ ~ret'.statuses[1].available
     /\ ret'.statuses[1].symbol = Upper(last'.syms[1])
     /\ ret'.statuses[1].file_path = <<>>
     /\ ret'.statuses[1].start_date = NoneDate
     /\ ret'.statuses[1].end_date = NoneDate
     /\ ret'.statuses[1].last_updated = NoneDate
     /\ ret'.statuses[1].file_size = 0
     /\ ret'.statuses[1].candles_count = 0

C12_InspectAbsent == [][C12_Step]_vars

\* inspect of a symbol without archive, in a directory that holds another archive
C12_Witness ==
  /\ Returned("inspect")
  /\ fs[ZipPath(last.syms[1])].kind = "none"
  /\ \E p \in ZipPaths : fs[p].kind = "zip"
  /\ ~ret.statuses[1].available

\* C13: ensure(S) returns the partition of S as the directory is when it returns: a
\* symbol is in available exactly when its archive exists then and in missing
\* exactly when it does not, and a symbol that was missing and has no remote data is
\* in missing after the attempted download.
C13_EnsurePartition ==
  (Returned("ensure") /\ ret.outcome = "ok")
  => LET S == last.syms
     IN /\ \A i \in DOMAIN S :
              /\ Upper(S[i]) \in Range(ret.available)
                   <=> fs[Lower(S[i]) \o QuoteZip].kind # "none"
              /\ Upper(S[i]) \in Range(ret.missing)
                   <=> fs[Lower(S[i]) \o QuoteZip].kind = "none"
        /\ \A i \in DOMAIN last.todo :
              ~RemoteHasMarket(last.todo[i]) => last.todo[i] \in Range(ret.missing)
        /\ Len(ret.available) + Len(ret.missing) = Len(S)

\* ensure of two missing symbols: one was downloaded, the other has no remote data
C13_Witness ==
  /\ Returned("ensure")
  /\ ret.outcome = "ok"
  /\ Len(last.todo) = 2
  /\ ret.available = <<<<"A", "B">>>>
  /\ ret.missing = <<<<"C", "D">>>>

\* the open times of candles
Times(data) == [i \in DOMAIN data |-> data[i].t]

\* C14: an error on page k of a download ends the fetch without raising: the fetch
\* gives the candles of the pages before page k of the fetch without error, in
\* order, after the same requests; when the first page fails it gives none, and the
\* files and the returned status are those of a download over an empty range.
C14_Step ==
  (/\ last.op = "idle" /\ last'.op = "download_symbol"
   /\ last'.failAt > 0)
  => LET symbol == last'.syms[1]
         k == last'.failAt
         full == download_binance_klines(symbol, DEFAULT_START_DATE, today, 0)
         before == SelectSeq(Times(full.data), LAMBDA t : t < full.reqs[k])
         nodata == download_symbol(fs, symbol, today, today, 0, FALSE)
     IN /\ k <= Len(full.reqs) =>
              /\ last'.fetched = before
              /\ last'.reqs = SubSeq(full.reqs, 1, k)
        /\ k > Len(full.reqs) =>
              /\ last'.fetched = Times(full.data)
              /\ last'.reqs = full.reqs
        /\ ret'.outcome = "raised" => last'.fetched # <<>>
        /\ k = 1 =>
              /\ last'.fetched = <<>>
              /\ fs' = nodata.dir
              /\ fs' = fs
              /\ ret'.outcome = "ok"
              /\ ret'.statuses = <<nodata.status>>

C14_FetchTruncates == [][C14_Step]_vars

\* a download whose second page failed: the archive holds the first page only,
\* though the remote had more
C14_Witness ==
  /\ Returned("download_symbol")
  /\ ret.outcome = "ok"
  /\ last.failAt = 2
  /\ Len(last.reqs) = 2
  /\ last.fetched # <<>>
  /\ RowTimes(fs[ZipPath(last.syms[1])]) = last.fetched
  /\ Len(download_binance_klines(last.syms[1], DEFAULT_START_DATE, today, 0).data)
       > Len(last.fetched)

\* a row the converter can parse: nine fields or more and a numeric timestamp
Parsable(line) ==
  LET parts == Split(Strip(line), ",")
  IN Len(parts) >= 9 /\ IntOk(parts[1])

\* the file convert_zip_file was working on when the converter raised
RaisedAt == last.todo[Len(last.todo) - Len(last.left)]

\* rows kept: the conversion that passed its read wrote one row per parsable row
C15_KeepsParsable ==
  (run.op = "convert" /\ run.phase # "read")
  => LET good == SelectSeq(SplitLines(run.orig.entries[1].data), Parsable)
         rows == Split(run.out, "\n")
     IN /\ Len(rows) = Len(good)
        /\ \A k \in DOMAIN rows :
              LET o == Split(rows[k], ",")
                  g == Split(Strip(good[k]), ",")
              IN /\ Len(o) = 11
                 /\ SubSeq(o, 2, 5) = SubSeq(g, 2, 5)
                 /\ SubSeq(o, 7, 10) = SubSeq(g, 6, 9)

\* C15: converting an archive of epoch rows keeps one row per parsable row, in
\* order, and drops the others; no row makes the conversion of the file raise: the
\* converter raises on none but a file that is no readable archive.
C15_ConvertDropsBadRows ==
  /\ C15_KeepsParsable
  /\ (Returned("convert") /\ ret.outcome = "raised") => fs[RaisedAt].kind # "zip"

C17_Step ==
  /\ (last.op = "idle" /\ last'.op \in {"download_missing", "ensure"})
       => LET S == last'.syms
              m == SelectSeq(S, LAMBDA x : fs[Lower(x) \o QuoteZip].kind = "none")
          IN /\ last'.todo = [i \in DOMAIN m |-> Upper(m[i])]
             /\ fs' = fs
             /\ last'.reqs = <<>>
  /\ run.op \in {"download_missing", "ensure"}
       => LET n == Len(last.todo) - Len(run.queue)
              symbol == last.todo[n + 1]
          IN /\ run.queue = SubSeq(last.todo, n + 1, Len(last.todo))
             /\ Len(run.done) = n
             /\ \A p \in AllPaths : p # Lower(symbol) \o QuoteZip => fs'[p] = fs[p]
             /\ last'.start = DEFAULT_START_DATE
             /\ last'.reqs # <<>> => last'.reqs[1] = DEFAULT_START_DATE * DayMs - tz * HourMs
             /\ last'.fetched # <<>> /\ ret'.outcome # "raised"
                  => RowTimes(fs'[Lower(symbol) \o QuoteZip]) = last'.fetched
             /\ run'.op # "idle" => run'.queue = SubSeq(last.todo, n + 2, Len(last.todo))

C17_DownloadsOnlyMissing == [][C17_Step]_vars

\* download_missing of two symbols, one with an archive, which is left alone, and
\* one without, which is downloaded
C17_Witness ==
  /\ Returned("download_missing")
  /\ ret.outcome = "ok"
  /\ Len(last.syms) = 2
  /\ last.todo = <<<<"A", "B">>>>
  /\ last.fetched # <<>>
  /\ \E i \in 1..2 : /\ Upper(last.syms[i]) # <<"A", "B">>
                       /\ fs[ZipPath(last.syms[i])].kind # "none"

\* C18: delete of a symbol with an archive removes that file and no other and reports
\* success, after which check reports the symbol missing and inspect available=false;
\* delete of a symbol without archive reports not-found, which is not success, and
\* changes no file.
C18_Step ==
  (last.op = "idle" /\ last'.op = "delete")
  => LET symbol == last'.syms[1]
         path == Lower(symbol) \o QuoteZip
     IN IF fs[path].kind # "none"
        THEN /\ ret'.outcome = "ok"
             /\ fs'[path].kind = "none"
             /\ \A p \in AllPaths : p # path => fs'[p] = fs[p]
             /\ check_symbols(fs', <<symbol>>) =
                  [available |-> <<>>, missing |-> <<Upper(symbol)>>]
             /\ ~get_symbol_status(fs', symbol).available
        ELSE /\ ret'.outcome = "not_found"
             /\ ret'.outcome # "ok"
             /\ fs' = fs

C18_Delete == [][C18_Step]_vars

\* a delete that removed a readable archive and left its backup
C18_Witness ==
  /\ Returned("delete")
  /\ ret.outcome = "ok"
  /\ fs[ZipPath(last.syms[1])].kind = "none"
  /\ fs[BackupPath(ZipPath(last.syms[1]))].kind = "zip"

\* the step is a download or an update of one symbol, alone or as a turn of a loop,
\* or a download of the standalone downloader
DownloadTurn ==
  \/ last.op = "idle" /\ last'.op \in {"download_symbol", "update_symbol", "standalone"}
  \/ run.op \in {"download_missing", "ensure", "update_all"}

\* C19: in every step, an archive comes to exist only by a download or update that
\* fetched a candle, and only the archive of the symbol it fetched; an archive
\* ceases to exist only by a delete of its symbol; a download or update that fetched
\* nothing changes no file; check and inspect change no file.
C19_Step ==
  /\ \A p \in ZipPaths :
        /\ (fs[p].kind = "none" /\ fs'[p].kind # "none")
              => /\ DownloadTurn
                 /\ last'.fetched # <<>>
                 /\ fs'[p].kind = "zip"
                 /\ RowTimes(fs'[p]) = last'.fetched
        /\ (fs[p].kind # "none" /\ fs'[p].kind = "none")
              => /\ last.op = "idle" /\ last'.op = "delete"
                 /\ p = Lower(last'.syms[1]) \o QuoteZip
                 /\ ret'.outcome = "ok"
  /\ (DownloadTurn /\ last'.fetched = <<>>) => fs' = fs
  /\ (last.op = "idle" /\ last'.op \in {"check", "inspect"}) => fs' = fs

C19_ArchiveLifecycle == [][C19_Step]_vars

\* check finds an archive of market "AB" that was written on the last day, in a
\* directory without backup: a download or an update made it
C19_Witness ==
  /\ Returned("check")
  /\ ret.available = <<<<"A", "B">>>>
  /\ fs[ZipPath(<<"A", "B">>)].kind = "zip"
  /\ fs[ZipPath(<<"A", "B">>)].mtime = MaxDay
  /\ fs[BackupPath(ZipPath(<<"A", "B">>))].kind = "none"

\* C20: the requests of a fetch: none when the start bound is not before the end
\* bound; else the first carries the start bound and each later one the open time of
\* the last candle of the page before it, plus one, so that the startTime values
\* increase strictly and stay before the end bound and no candle comes twice; and
\* the fetch ends only on an empty page, on a failed page, or when the next
\* startTime has reached the end bound.
C20_Pagination ==
  (Returned("download_symbol") \/ Returned("update_symbol"))
  => LET symbol == last.syms[1]
         reqs == last.reqs
         got == last.fetched
         n == Len(reqs)
         start_ts == last.start * DayMs - tz * HourMs
         end_ts == today * DayMs - tz * HourMs
         PageOf(i) == SelectSeq(got, LAMBDA t : reqs[i] <= t /\ (i = n \/ t < reqs[i + 1]))
     IN /\ start_ts >= end_ts => n = 0 /\ got = <<>>
        /\ start_ts < end_ts => n >= 1 /\ reqs[1] = start_ts
        /\ \A i \in 2..n :
              /\ PageOf(i - 1) # <<>>
              /\ reqs[i] = PageOf(i - 1)[Len(PageOf(i - 1))] + 1
              /\ reqs[i] > reqs[i - 1]
              /\ reqs[i] < end_ts
        /\ \A i, j \in DOMAIN got : i < j => got[i] < got[j]
        /\ \A i \in DOMAIN got : got[i] >= start_ts
        /\ n >= 1 =>
              IF PageOf(n) = <<>>
              THEN \/ last.failAt = n
                   \/ RemotePage(Upper(symbol), reqs[n], end_ts, PageLimit) = <<>>
              ELSE PageOf(n)[Len(PageOf(n))] + 1 >= end_ts
        /\ \A sd, ed \in 1..MaxDay : \A failAt \in FailAts :
              sd >= ed => download_binance_klines(symbol, sd, ed, failAt).reqs = <<>>

\* a fetch of two requests: a full page, and a second page that reached the end bound
C20_Witness ==
  /\ Returned("download_symbol")
  /\ last.failAt = 0
  /\ Len(last.reqs) = 2
  /\ Len(last.fetched) > RemotePageCap
  /\ last.reqs[2] = last.fetched[RemotePageCap] + 1

\* the time a row stands for, in milliseconds: its epoch, or the minute of its date-key
RowKey(line) ==
  LET t == FirstField(line)
  IN IF IsDigit(t) THEN IntVal(t)
     ELSE (IF SubSeq(t, 1, 6) = <<"2", "0", "2", "3", "0", "1">>
           THEN DigitsVal(SubSeq(t, 7, 8)) ELSE 0) * DayMs
          + DigitsVal(SubSeq(t, 10, 11)) * HourMs + DigitsVal(SubSeq(t, 13, 14)) * 60 * 1000

\* an archive the program wrote: the archives it found bear the time 0
Written(f) == f.kind = "zip" /\ f.mtime >= DEFAULT_START_DATE

\* C21: whatever downloads, updates and conversions have run, every archive one of
\* them wrote holds exactly one entry, named after the symbol in lower case with
\* ".csv", whose rows each begin with an epoch or a date-key and stand in strictly
\* ascending time order, no time twice, also where one page of a fetch ended and the
\* next began.
C21_ArchiveInvariant ==
  \A p \in ZipPaths :
     Written(fs[p]) =>
       LET lines == SplitLines(fs[p].entries[1].data)
       IN /\ Len(fs[p].entries) = 1
          /\ fs[p].entries[1].name = Lower(SymbolOf(p)) \o DotCsv
          /\ lines # <<>>
          /\ \A i \in DOMAIN lines :
                IsDigit(FirstField(lines[i])) \/ IsDateKey(FirstField(lines[i]))
          /\ \A i \in 1..(Len(lines) - 1) : RowKey(lines[i]) < RowKey(lines[i + 1])

\* a download of more than one page wrote an archive, and a conversion then rewrote
\* it: the archive holds as many date-key rows as the backup holds epoch rows
C21_Witness ==
  /\ Returned("convert")
  /\ ret.outcome = "ok"
  /\ last.log = <<"converted">>
  /\ Written(fs[last.todo[1]])
  /\ Written(last.orig)
  /\ Len(SplitLines(last.orig.entries[1].data)) > RemotePageCap
  /\ Len(SplitLines(fs[last.todo[1]].entries[1].data)) = Len(SplitLines(last.orig.entries[1].data))
  /\ IsDateKey(FirstField(SplitLines(fs[last.todo[1]].entries[1].data)[1]))

\* the directory as it was before the download or update that returned last
Before == [fs EXCEPT ![ZipPath(last.syms[1])] = last.orig]

\* C23: update_one of a symbol whose status is not available, or has no end_date,
\* does what download_one does: it fetches from the default start date through
\* today and leaves the files and the result download_one would; when candles came
\* back, the archive that was there, readable or not, is replaced by one that holds
\* exactly the fetched candles.
C23_UpdateUnavailable ==
  (/\ Returned("update_symbol")
   /\ ~(last.prior.available /\ last.prior.end_date # NoneDate))
  => LET symbol == last.syms[1]
         path == Lower(symbol) \o QuoteZip
         full == download_binance_klines(symbol, DEFAULT_START_DATE, today, last.failAt)
         d == download_symbol(Before, symbol, NoneDate, NoneDate, last.failAt,
                              ret.outcome = "raised")
     IN /\ last.start = DEFAULT_START_DATE
        /\ last.reqs = full.reqs
        /\ last.fetched = Times(full.data)
        /\ DEFAULT_START_DATE < today
              => last.reqs # <<>> /\ last.reqs[1] = DEFAULT_START_DATE * DayMs - tz * HourMs
        /\ fs = d.dir
        /\ ret = RetOf(d)
        /\ (last.fetched # <<>> /\ ret.outcome = "ok")
              => /\ fs[path] = ZipFile(<<[name |-> Lower(symbol) \o DotCsv,
                                           data |-> CsvText(full.data)]>>, today)
                 /\ RowTimes(fs[path]) = last.fetched
                 /\ ret.statuses[1].available
                 /\ ret.statuses[1].candles_count = Len(last.fetched)

\* an update replaced an archive that a killed write had left unreadable
C23_Witness ==
  /\ Returned("update_symbol")
  /\ last.orig.kind = "bad"
  /\ ~last.prior.available
  /\ last.fetched # <<>>
  /\ ret.outcome = "ok"
  /\ ret.statuses[1].available
  /\ fs[ZipPath(last.syms[1])].kind = "zip"

\* C26: a download or update whose request for page k >= 2 failed, the pages before
\* it having given candles, writes the archive all the same: the archive holds
\* exactly the candles of the pages before page k, whatever archive was there, and
\* the status returned is available with that number of rows.
C26_PartialOverwrites ==
  (/\ Returned("download_symbol") \/ Returned("update_symbol")
   /\ last.failAt >= 2
   /\ Len(last.reqs) = last.failAt
   /\ ret.outcome = "ok")
  => LET symbol == last.syms[1]
         path == Lower(symbol) \o QuoteZip
         whole == download_binance_klines(symbol, last.start, today, 0)
         part == SelectSeq(whole.data, LAMBDA c : c.t < last.reqs[last.failAt])
     IN /\ last.fetched # <<>>
        /\ last.fetched = Times(part)
        /\ fs[path] = ZipFile(<<[name |-> Lower(symbol) \o DotCsv,
                                  data |-> CsvText(part)]>>, today)
        /\ ret.statuses[1].available
        /\ ret.statuses[1].candles_count = Len(part)
        /\ ret.statuses[1] = get_symbol_status(fs, symbol)

\* a download whose second page failed replaced a longer archive by a shorter one
C26_Witness ==
  /\ Returned("download_symbol")
  /\ ret.outcome = "ok"
  /\ last.failAt = 2
  /\ Len(last.reqs) = 2
  /\ Written(last.orig)
  /\ IsDigit(FirstField(last.orig.entries[1].data))
  /\ Len(RowTimes(last.orig)) > Len(last.fetched)
  /\ SubSeq(RowTimes(last.orig), 1, Len(last.fetched)) = last.fetched
  /\ ret.statuses[1].candles_count = Len(last.fetched)

\* C27: update_one of a symbol whose status has an end_date of today or later makes
\* no request, leaves the archive as it was and returns the status inspect gave
\* before; another update_one then does the same, whatever the remote would do.
C27_UpToDate ==
  (/\ Returned("update_symbol")
   /\ last.prior.available
   /\ last.prior.end_date # NoneDate
   /\ last.prior.end_date >= today)
  => LET symbol == last.syms[1]
     IN /\ last.reqs = <<>>
        /\ last.fetched = <<>>
        /\ ret.outcome = "ok"
        /\ ret.statuses = <<last.prior>>
        /\ fs[Lower(symbol) \o QuoteZip] = last.orig
        /\ \A failAt \in FailAts, ioFail \in BOOLEAN :
              LET again == update_symbol(fs, symbol, failAt, ioFail)
              IN /\ again.dir = fs
                 /\ again.reqs = <<>>
                 /\ ~again.raised
                 /\ again.status = last.prior

\* an update of an archive whose last row is of today, on a later day than the
\* archive's first row
C27_Witness ==
  /\ Returned("update_symbol")
  /\ last.prior.available
  /\ last.prior.end_date = today
  /\ last.prior.start_date < today
  /\ last.reqs = <<>>
  /\ ret.statuses = <<last.prior>>

\* a file that is there and is no archive inspect can read: no zip archive, no
\* entry, or a boundary line whose first field is no integer
Corrupt(f) ==
  \/ f.kind = "bad"
  \/ f.kind = "zip" /\ f.entries = <<>>
  \/ f.kind = "zip" /\ f.entries # <<>> /\ \E t \in BoundaryFields(f) : ~IntOk(t)

\* C28: for a symbol whose archive file is there but corrupt or unparsable, check
\* gives available while inspect gives available=false; download_missing and ensure
\* never take such a symbol for their loop, so it is not downloaded again however
\* often they are called, and ensure returns it in available.
C28_CheckInspectDisagree ==
  /\ \A s \in Symbols :
        Corrupt(fs[ZipPath(s)])
          => /\ check_symbols(fs, <<s>>) = [available |-> <<Upper(s)>>, missing |-> <<>>]
             /\ ~get_symbol_status(fs, s).available
  /\ (Returned("check") \/ Returned("inspect"))
        => \A i \in DOMAIN last.syms :
              Corrupt(fs[ZipPath(last.syms[i])])
                => IF last.op = "check"
                   THEN /\ Upper(last.syms[i]) \in Range(ret.available)
                        /\ Upper(last.syms[i]) \notin Range(ret.missing)
                   ELSE ~ret.statuses[1].available
  /\ (last.op \in {"download_missing", "ensure"})
        => \A i \in DOMAIN last.syms :
              Corrupt(fs[ZipPath(last.syms[i])])
                => /\ Upper(last.syms[i]) \notin Range(last.todo)
                   /\ (run.op = "idle" /\ last.op = "ensure" /\ ret.outcome = "ok")
                         => /\ Upper(last.syms[i]) \in Range(ret.available)
                            /\ Upper(last.syms[i]) \notin Range(ret.missing)

\* ensure of two symbols: the one whose file is unreadable is returned as available
\* and still unreadable, the other one was downloaded
C28_Witness ==
  /\ Returned("ensure")
  /\ ret.outcome = "ok"
  /\ Len(last.syms) = 2
  /\ Len(last.todo) = 1
  /\ last.fetched # <<>>
  /\ \E i \in 1..2 :
        /\ fs[ZipPath(last.syms[i])].kind = "bad"
        /\ Upper(last.syms[i]) \in Range(ret.available)
        /\ ~get_symbol_status(fs, last.syms[i]).available

\* C29: for an upper-case symbol, the standalone downloader over the default range
\* does what the data manager's download does on the same directory with the same
\* remote answers and failures: the same requests in the same order, the same
\* candles, and the same files afterwards, that is the same archive with the same
\* entry name and rows, or no write where no candle was fetched.
C29_SameDownload ==
  (Returned("standalone") /\ last.syms[1] = Upper(last.syms[1]))
  => LET symbol == last.syms[1]
         m == download_symbol(Before, symbol, NoneDate, NoneDate, last.failAt,
                              ret.outcome = "raised")
         k == download_binance_klines(symbol, DEFAULT_START_DATE, today, last.failAt)
     IN /\ last.reqs = m.reqs
        /\ last.reqs = k.reqs
        /\ last.fetched = m.fetched
        /\ last.start = m.start
        /\ fs = m.dir
        /\ m.raised <=> ret.outcome = "raised"
        /\ fs = IF ret.outcome = "raised" THEN Before
                ELSE save_to_lean_format(Before, k.data, symbol)
        /\ last.fetched = <<>> => fs = Before

\* the standalone downloader, its second page failed, wrote the first page's
\* candles over an archive that was there
C29_Witness ==
  /\ Returned("standalone")
  /\ last.syms[1] = <<"A", "B">>
  /\ ret.outcome = "ok"
  /\ last.failAt = 2
  /\ Len(last.reqs) = 2
  /\ last.fetched # <<>>
  /\ last.orig.kind # "none"
  /\ fs[ZipPath(last.syms[1])] # last.orig
  /\ RowTimes(fs[ZipPath(last.syms[1])]) = last.fetched

----------------------------------------------------------------------------
(* The functions of the program applied to sample archives *)

MaxLines == 3   \* the lines of a sample entry

\* an epoch row as the encoder writes it, without its line end
SampleRow == SubSeq(QuoteRow(RemoteCandle(1)), 1, Len(QuoteRow(RemoteCandle(1))) - 2)

\* the lines of the sample entries: a blank line, an epoch row, a row cut short, a
\* date-key row
SampleLines ==
  {<<>>, SampleRow, <<"1", "7", "2", "8", "0", "0", "0", "0", "0", ",", "3", ".", "0">>,
   convert_line(SampleRow)}

\* the entries: up to MaxLines lines, "\n" between them
SampleTexts == {Join(q, <<"\n">>) : q \in UNION {[1..n -> SampleLines] : n \in 0..MaxLines}}

\* the files found at the path of market "AB"
SampleFiles ==
  {NoFile, BadFile(0), ZipFile(<<>>, 0)}
    \cup {ZipFile(<<[name |-> CsvName(<<"A", "B">>), data |-> t]>>, 0) : t \in SampleTexts}

\* the candle sequences handed to the encoders
SampleData == {<<>>, <<RemoteCandle(1)>>, <<RemoteCandle(1), RemoteCandle(2)>>}

\* a sample file at the path of market "AB", with or without a file at its backup path
InitFiles ==
  /\ fs \in {[EmptyDir EXCEPT ![ZipPath(<<"A", "B">>)] = f,
                              ![BackupPath(ZipPath(<<"A", "B">>))] = b] :
               f \in SampleFiles, b \in {NoFile, BadFile(0)}}
  /\ today = DEFAULT_START_DATE
  /\ tz \in TZOffsets
  /\ run = Idle
  /\ last = Last("idle", <<>>)
  /\ ret = Ret("none")

\* _save_to_lean_format(data, symbol)
SaveToLeanFormat(data, symbol) ==
  /\ Ready
  /\ fs' = save_to_lean_format(fs, data, symbol)
  /\ last' = [Last("save_to_lean_format", <<symbol>>)
                EXCEPT !.fetched = [i \in DOMAIN data |-> data[i].t],
                       !.orig = fs[ZipPath(symbol)]]
  /\ ret' = Ret(IF data = <<>> THEN "returned_none" ELSE "returned_path")
  /\ UNCHANGED <<today, tz, run>>

\* convert_to_lean_quote_format(data, symbol, output_dir)
ConvertToLeanQuoteFormat(data, symbol) ==
  /\ Ready
  /\ fs' = convert_to_lean_quote_format(fs, data, symbol)
  /\ last' = [Last("convert_to_lean_quote_format", <<symbol>>)
                EXCEPT !.fetched = [i \in DOMAIN data |-> data[i].t],
                       !.orig = fs[ZipPath(symbol)]]
  /\ ret' = Ret("returned_path")
  /\ UNCHANGED <<today, tz, run>>

\* convert_zip_file(input_path, output_path, backup)
ConvertZipFile(input_path, output, backup) ==
  /\ Ready
  /\ LET r == convert_zip_file(fs, input_path, output, backup)
     IN /\ fs' = r.dir
        /\ last' = [Last("convert_zip_file", <<input_path, output>>)
                      EXCEPT !.log = <<r.outcome>>, !.orig = fs[input_path]]
        /\ ret' = Ret(IF r.outcome = "raised" THEN "raised" ELSE "ok")
  /\ UNCHANGED <<today, tz, run>>

\* _save_to_lean_format(data, symbol) with data, step by step: the rows are ready
SaveBegin(data, symbol) ==
  /\ Ready
  /\ data # <<>>
  /\ run' = [Idle EXCEPT !.op = "save", !.arg = <<symbol>>, !.phase = "open",
                         !.out = CsvText(data), !.csv_name = CsvName(symbol),
                         !.orig = fs[ZipPath(symbol)]]
  /\ last' = Last("save", <<symbol>>)
  /\ ret' = Ret("none")
  /\ UNCHANGED <<fs, today, tz>>

\* zipfile.ZipFile(zip_path, 'w'), were the rows to reach the archive one by one,
\* each time leaving a complete archive
SaveOpenPartial ==
  /\ run.op = "save" /\ run.phase = "open"
  /\ fs' = [fs EXCEPT ![ZipPath(run.arg[1])] =
              ZipFile(<<[name |-> run.csv_name, data |-> SplitLines(run.out)[1]]>>, today)]
  /\ run' = [run EXCEPT !.phase = "writing"]
  /\ UNCHANGED <<today, tz, last, ret>>

\* zipfile.ZipFile(zip_path, 'w') truncates the file; until the archive is closed
\* the file has no central directory
SaveOpen ==
  /\ run.op = "save" /\ run.phase = "open"
  /\ fs' = [fs EXCEPT ![ZipPath(run.arg[1])] = BadFile(today)]
  /\ run' = [run EXCEPT !.phase = "writing"]
  /\ UNCHANGED <<today, tz, last, ret>>

\* zf.writestr(csv_filename, ...) and the close of the archive
SaveClose ==
  /\ run.op = "save" /\ run.phase = "writing"
  /\ fs' = [fs EXCEPT ![ZipPath(run.arg[1])] =
              ZipFile(<<[name |-> run.csv_name, data |-> run.out]>>, today)]
  /\ run' = [run EXCEPT !.phase = "closed"]
  /\ UNCHANGED <<today, tz, last, ret>>

\* the writer is killed before or after it truncated the file
SaveCrash ==
  /\ run.op = "save" /\ run.phase \in {"open", "writing"}
  /\ run' = [run EXCEPT !.phase = "crashed"]
  /\ UNCHANGED <<fs, today, tz, last, ret>>

\* get_symbol_status(symbol) by another caller, while the write is under way or
\* after it ended
InspectDuring(symbol) ==
  /\ run.op = "save" /\ last.op = "save"
  /\ last' = [Last("inspect_during", <<symbol>>) EXCEPT !.log = <<run.phase>>]
  /\ ret' = [Ret("ok") EXCEPT !.statuses = <<get_symbol_status(fs, symbol)>>]
  /\ UNCHANGED <<fs, today, tz, run>>

NextFiles ==
  \/ \E symbol \in Symbols : Inspect(symbol)
  \/ \E data \in SampleData, symbol \in Symbols : SaveToLeanFormat(data, symbol)
  \/ \E data \in SampleData, symbol \in Symbols : ConvertToLeanQuoteFormat(data, symbol)
  \/ \E input_path \in ZipPaths, output \in ZipPaths \cup {<<>>}, backup \in BOOLEAN :
        ConvertZipFile(input_path, output, backup)

SpecFiles == InitFiles /\ [][NextFiles]_vars

\* one writer and the readers of its archive.  The archive of market "AB" is not
\* there, is unreadable, or holds what an earlier write left.
InitWrite ==
  /\ fs \in {[EmptyDir EXCEPT ![ZipPath(<<"A", "B">>)] = f] :
               f \in {NoFile, BadFile(0)}
                       \cup {ZipFile(<<[name |-> CsvName(<<"A", "B">>), data |-> CsvText(d)]>>, 0) :
                               d \in SampleData \ {<<>>}}}
  /\ today \in DEFAULT_START_DATE..MaxDay
  /\ tz \in TZOffsets
  /\ run = Idle
  /\ last = Last("idle", <<>>)
  /\ ret = Ret("none")

NextWrite ==
  \/ \E data \in SampleData, symbol \in Symbols : SaveBegin(data, symbol)
  \/ SaveOpen
  \/ SaveClose
  \/ SaveCrash
  \/ \E symbol \in Symbols : InspectDuring(symbol)

SpecWrite == InitWrite /\ [][NextWrite]_vars

----------------------------------------------------------------------------
(* Properties of the functions *)

\* what the reader of C22 may be given: the status with the writer's archive as it
\* was, or as it will be
StatusWith(f) ==
  get_symbol_status([fs EXCEPT ![ZipPath(run.arg[1])] = f], last.syms[1])

C24_RowCount ==
  (/\ Returned("inspect")
   /\ fs[ZipPath(last.syms[1])].kind = "zip"
   /\ fs[ZipPath(last.syms[1])].entries # <<>>)
  => LET lines == Split(fs[ZipPath(last.syms[1])].entries[1].data, "\n")
         n == Cardinality({i \in DOMAIN lines : Strip(lines[i]) # <<>>})
     IN /\ ret.statuses[1].available => ret.statuses[1].candles_count = n
        /\ n = 0 => ret.statuses[1].candles_count = 0

\* C25: either encoder, given no candle, returns nothing and leaves every file as
\* it was: it creates no archive and changes none.
C25_EncodeEmptyNoOp ==
  (/\ Returned("save_to_lean_format") \/ Returned("convert_to_lean_quote_format")
   /\ last.fetched = <<>>)
  => /\ ret.outcome = "returned_none"
     /\ fs = Before

\* C30: a call of convert_zip_file changes no file when the archive has no entry,
\* when its first line does not begin with digits, or when no line of it parses;
\* it changes a file only when a row converted, and then only the output path and,
\* writing in place with backup set, the backup path; when the output path is not
\* the input path, the input archive and every backup path stay as they were.
C30_Step ==
  (last.op = "idle" /\ last'.op = "convert_zip_file")
  => \E input \in {last'.syms[1]} :
     \E output \in {IF last'.syms[2] = <<>> THEN input ELSE last'.syms[2]} :
     \E lines \in {IF fs[input].kind = "zip" /\ fs[input].entries # <<>>
                    THEN SplitLines(fs[input].entries[1].data) ELSE <<>>} :
     \E first \in {IF lines = <<>> THEN <<>> ELSE FirstField(lines[1])} :
       LET f == fs[input]
           quiet == /\ f.kind = "zip"
                    /\ \/ f.entries = <<>>
                       \/ lines # <<>> /\ ~IsDigit(first)
                       \/ \A i \in DOMAIN lines : ~Parsable(lines[i])
       IN /\ quiet => fs' = fs /\ ret'.outcome = "ok"
          /\ fs' # fs => /\ f.kind = "zip" /\ f.entries # <<>>
                         /\ \E i \in DOMAIN lines : Parsable(lines[i])
                         /\ fs'[output].kind = "zip"
                         /\ fs'[output].entries[1].data # <<>>
          /\ \A p \in AllPaths : p \notin {output, BackupPath(input)} => fs'[p] = fs[p]
          /\ fs'[BackupPath(input)] # fs[BackupPath(input)]
               => /\ fs'[BackupPath(input)] = fs[input]
                  /\ output = input
                  /\ fs'[input] # fs[input]
          /\ output # input
               => /\ fs'[input] = fs[input]
                  /\ \A p \in ZipPaths : fs'[BackupPath(p)] = fs[BackupPath(p)]

C30_ConvertFrame == [][C30_Step]_vars

\* a conversion to another path, backup set: the output holds date-key rows, the
\* input is as it was, and the file at the backup path was not written
C30_Witness ==
  /\ Returned("convert_zip_file")
  /\ ret.outcome = "ok"
  /\ last.syms[2] # <<>>
  /\ last.syms[2] # last.syms[1]
  /\ last.log = <<"convert">>
  /\ fs[last.syms[2]].kind = "zip"
  /\ IsDateKey(FirstField(fs[last.syms[2]].entries[1].data))
  /\ fs[last.syms[1]] = last.orig
  /\ fs[BackupPath(last.syms[1])] = BadFile(0)

====
